---- MODULE Spec2Model ----
(***************************************************************************)
(* hash-that-set (src/src/lib.rs): order-independent hashing of            *)
(* collections by summing the 64-bit digests of the elements, and the two  *)
(* transparent wrappers SumHashes / SumHashesAnyCollection.                *)
(*                                                                         *)
(* A u64 is a tuple of four 16-bit limbs, least significant first, so that *)
(* Wrapping<u64> addition is computed with its real width.                 *)
(***************************************************************************)
EXTENDS Integers, Sequences, FiniteSets

\* ------------------------------------------------------------------ bounds
MaxLen == 2

\* --------------------------------------------------------- u64 arithmetic
Base == 2 ^ 16
Limbs == 1..4

Zero64 == <<0, 0, 0, 0>>
One64 == <<1, 0, 0, 0>>
Max64 == <<Base - 1, Base - 1, Base - 1, Base - 1>>

\* carry out of limb i when adding a and b
RECURSIVE Carry(_, _, _)
Carry(a, b, i) ==
    IF i = 0 THEN 0 ELSE (a[i] + b[i] + Carry(a, b, i - 1)) \div Base

\* a + b mod 2^64
Add64(a, b) ==
    [i \in Limbs |-> (a[i] + b[i] + Carry(a, b, i - 1)) % Base]

\* TRUE iff a + b does not fit 64 bits
Overflows(a, b) == Carry(a, b, 4) = 1

RECURSIVE MulCarry(_, _, _)
MulCarry(a, m, i) ==
    IF i = 0 THEN 0 ELSE (a[i] * m + MulCarry(a, m, i - 1)) \div Base

\* a * m mod 2^64, for a small multiplier m
MulSmall(a, m) ==
    [i \in Limbs |-> (a[i] * m + MulCarry(a, m, i - 1)) % Base]

\* a rotated left by one limb
RotL16(a) == <<a[4], a[1], a[2], a[3]>>

\* a small unsigned value widened to u64
U64(x) == <<x % Base, 0, 0, 0>>

\* ------------------------------------------- std::hash, as the crate uses it
\* The hashers are std's (SipHash-1-3, keyed); the crate only builds them,
\* feeds them and reads their digest.  They are modelled by a keyed mixing
\* function over u64 that is sensitive to the key, to the values written
\* and to the order of the writes.

\* the state of a hasher keyed with `key`
Keyed(key) == Add64(<<25973, 28787, 28005, 29551>>, MulSmall(U64(key), 40503))

\* DefaultHasher::new(): the fixed keys (0, 0)
DefaultHasher_new == Keyed(0)

\* Hasher::write_u64(v) on state st
write_u64(st, v) == Add64(MulSmall(RotL16(st), 251), Add64(v, One64))

\* Hasher::finish() of state st
finish(st) == Add64(MulSmall(RotL16(RotL16(st)), 239), st)

\* Hash::hash(&value, &mut hasher) of an element: a pair (k, v) is fed
\* field by field, whether it is the item (&K, &V) of a map or the item
\* &(K, V) of a set or of a sequence
Hash_hash(value, st) == write_u64(write_u64(st, U64(value[1])), U64(value[2]))

\* ------------------------------------------------------------ collections
\* Elements are pairs (key, value); value is a string, coded by its length.
Elems == {<<4, 0>>, <<1, 2>>, <<1, 5>>}
Seeds == {1, 2}
Kinds == {"HashMap", "HashSet", "Vec"}

\* A collection: its kind, its elements in the order iteration yields
\* them, and the BuildHasher it carries (0: the kind carries none).
Collection(kind, elems, ctx) == [kind |-> kind, elems |-> elems, ctx |-> ctx]

\* the value left behind by a move
MovedC == Collection("moved", <<>>, 0)

Range(s) == {s[i] : i \in DOMAIN s}
NoDup(s) == \A i, j \in DOMAIN s : s[i] = s[j] => i = j
KeysOf(s) == {s[i][1] : i \in DOMAIN s}

SeqsUpTo(n) == UNION {[1..k -> Elems] : k \in 0..n}

\* the element sequences a collection of this kind can hold
WellFormed(kind, s) ==
    CASE kind = "HashSet" -> NoDup(s)
      [] kind = "HashMap" -> \A i, j \in DOMAIN s : s[i][1] = s[j][1] => i = j
      [] OTHER -> TRUE

CtxsOf(kind) == IF kind = "Vec" THEN {0} ELSE Seeds

\* C: ProvidesHasher  (HashMap and HashSet)
ProvidesHasher(c) == c.kind \in {"HashMap", "HashSet"}

\* ProvidesHasher::hasher(&self)
ProvidesHasher_hasher(c) == c.ctx

\* BuildHasher::build_hasher() of the collection's RandomState
build_hasher(ctx) == Keyed(ctx)

InsertAt(s, p, x) == SubSeq(s, 1, p - 1) \o <<x>> \o SubSeq(s, p, Len(s))
RemoveAt(s, p) == SubSeq(s, 1, p - 1) \o SubSeq(s, p + 1, Len(s))

\* the operations a caller applies to a collection
\*   insert x: HashSet::insert, HashMap::insert(k, v), Vec::push;
\*             p is where iteration will yield a new element
\*   remove p: removal of the element iteration yields p-th
Ops(c) ==
    {[name |-> "insert", x |-> x, p |-> p] :
        x \in Elems, p \in 1..(Len(c.elems) + 1)}
    \cup {[name |-> "remove", x |-> c.elems[p], p |-> p] : p \in DOMAIN c.elems}

Apply(c, op) ==
    IF op.name = "remove"
    THEN [c EXCEPT !.elems = RemoveAt(@, op.p)]
    ELSE CASE c.kind = "HashSet" ->
                IF op.x \in Range(c.elems) THEN c
                ELSE [c EXCEPT !.elems = InsertAt(@, op.p, op.x)]
           [] c.kind = "HashMap" ->
                IF op.x[1] \in KeysOf(c.elems)
                THEN [c EXCEPT !.elems =
                        [i \in DOMAIN @ |-> IF @[i][1] = op.x[1] THEN op.x ELSE @[i]]]
                ELSE [c EXCEPT !.elems = InsertAt(@, op.p, op.x)]
           [] OTHER -> [c EXCEPT !.elems = Append(@, op.x)]

\* the multiset of a sequence: how often each element occurs
Count(s, x) == Cardinality({i \in DOMAIN s : s[i] = x})
BagOf(s) == [x \in Elems |-> Count(s, x)]

\* PartialEq of the collections
CollEq(a, b) ==
    /\ a.kind = b.kind
    /\ IF a.kind = "Vec" THEN a.elems = b.elems
       ELSE BagOf(a.elems) = BagOf(b.elems)

\* ---------------------------------------------------------------- wrappers
\* SumHashesAnyCollection<C, H>(C, PhantomData<H>) is the record [ty, c, bh];
\* SumHashes<C>(SumHashesAnyCollection<C, UseProvidedHasher<C>>) is the same
\* record with its own ty: both structs are repr(transparent) over C.

\* the wrapper made with Default::default() contents, used by FromDefault
EmptyLike(value) == Collection(value.kind, <<>>, value.ctx)

\* a From that drops its argument
FromDefault(value, bh) ==
    [ty |-> "SumHashesAnyCollection", c |-> EmptyLike(value), bh |-> bh]

\* impl From<C> for SumHashesAnyCollection<C, H>
SumHashesAnyCollection_from(value, bh) ==
    [ty |-> "SumHashesAnyCollection", c |-> value, bh |-> bh]

\* SumHashesAnyCollection::new
SumHashesAnyCollection_new(value) ==
    SumHashesAnyCollection_from(value, "UseDefaultHasher")

\* impl From<C> for SumHashes<C>
SumHashes_from(value) ==
    [SumHashesAnyCollection_from(value, "UseProvidedHasher")
        EXCEPT !.ty = "SumHashes"]

\* SumHashes::new
SumHashes_new(value) == SumHashes_from(value)

\* SumHashes::into_inner (self.0 .0), SumHashesAnyCollection::into_inner (self.0)
into_inner(wr) == wr.c

\* Deref::deref (&self.0 .0, &self.0)
deref(wr) == wr.c

\* an operation applied through DerefMut::deref_mut (&mut self.0 .0, &mut self.0)
deref_mut(wr, op) == [wr EXCEPT !.c = Apply(@, op)]

\* the wrapper value left behind by a move
MovedW == [ty |-> "moved", c |-> MovedC, bh |-> "none"]

\* ------------------------------------------------------------------- state
VARIABLES
    owner,  \* slot -> "caller" | "wrapper": who owns the slot's collection
    coll,   \* slot -> the collection while the caller owns it
    w,      \* slot -> the wrapper while it owns the collection
    bare,   \* slot -> the same collection, never wrapped, given the same operations
    run,    \* the frame of hash_by_summing_hashes_with, or idle
    state,  \* the caller's outer hasher (the `state` argument)
    hist    \* slot -> the results of the latest hash requests on the slot's value

vars == <<owner, coll, w, bare, run, state, hist>>

Slots == DOMAIN owner

\* the collection of slot i, wherever it lives (what a `&C` to it refers to)
Coll(i) == IF owner[i] = "wrapper" THEN deref(w[i]) ELSE coll[i]

NoValue == <<0, 0>>
NoSrc == [from |-> "none", slot |-> 0]
NoHasher == [live |-> FALSE, st |-> Zero64, src |-> NoSrc, fed |-> 0]

IdleRun ==
    [pc |-> "idle", entry |-> "none", self |-> 0, bh |-> "none", idx |-> 0,
     value |-> NoValue,
     sum |-> Zero64, hasher |-> NoHasher, built |-> 0, finished |-> 0,
     writes |-> <<>>, out0 |-> Zero64]

\* the states the caller's outer hasher may be in at a call: new, or
\* already fed (the wrapper hashed as a field after another)
OuterStates == {DefaultHasher_new, write_u64(DefaultHasher_new, U64(7))}

\* ------------------------------------------------ context selection (BH)
\* a hasher keyed per request instead of the fixed default
FreshKeyPerRequest(friend) ==
    [live |-> TRUE, st |-> Keyed(10 + Len(hist[friend])),
     src |-> [from |-> "default", slot |-> 0], fed |-> 0]

\* <UseDefaultHasher as BuildHasherFromFriend<F>>::build_hasher_from(_)
UseDefaultHasher_build_hasher_from(friend) ==
    [live |-> TRUE, st |-> DefaultHasher_new,
     src |-> [from |-> "default", slot |-> 0], fed |-> 0]

\* a provided-hasher selector that falls back to the default hasher
ProvidedFallsBack(friend) ==
    [live |-> TRUE, st |-> DefaultHasher_new,
     src |-> [from |-> "default", slot |-> 0], fed |-> 0]

\* <UseProvidedHasher<C> as BuildHasherFromFriend<C>>::build_hasher_from(friend)
UseProvidedHasher_build_hasher_from(friend) ==
    [live |-> TRUE, st |-> build_hasher(ProvidesHasher_hasher(Coll(friend))),
     src |-> [from |-> "friend", slot |-> friend], fed |-> 0]

\* BH::build_hasher_from(collection)
build_hasher_from(bh, friend) ==
    IF bh = "UseDefaultHasher"
    THEN UseDefaultHasher_build_hasher_from(friend)
    ELSE UseProvidedHasher_build_hasher_from(friend)

\* ----------------------------------------------------------- the combiner
\* sum that stops at u64::MAX
SaturatingAdd(sum, d) == IF Overflows(sum, d) THEN Max64 ELSE Add64(sum, d)

\* sum that depends on the order of the terms
ChainedAdd(sum, d) == Add64(MulSmall(sum, 31), d)

\* `sum = d` for `sum += d`
Overwrite(sum, d) == d

\* Wrapping<u64> += u64
WrappingAdd(sum, d) == Add64(sum, d)

\* a sum that starts at one
StartsAtOne == One64

\* Wrapping::default()
Wrapping_default == Zero64

\* the hasher after the loop body ends: dropped
KeepHasher(h) == h
DropHasher(h) == NoHasher

\* ----------------------------------------------------------------- actions
\* the caller wraps its collection: SumHashes::new / From.  The results the
\* caller remembers are those of the value it holds: they go when it moves.
NewSumHashes(i) ==
    /\ run.pc = "idle"
    /\ owner[i] = "caller"
    /\ ProvidesHasher(coll[i])
    /\ w' = [w EXCEPT ![i] = SumHashes_new(coll[i])]
    /\ coll' = [coll EXCEPT ![i] = MovedC]
    /\ owner' = [owner EXCEPT ![i] = "wrapper"]
    /\ hist' = [hist EXCEPT ![i] = <<>>]
    /\ UNCHANGED <<bare, run, state>>

\* the caller wraps its collection: SumHashesAnyCollection::new / From
NewSumHashesAnyCollection(i) ==
    /\ run.pc = "idle"
    /\ owner[i] = "caller"
    /\ w' = [w EXCEPT ![i] = SumHashesAnyCollection_new(coll[i])]
    /\ coll' = [coll EXCEPT ![i] = MovedC]
    /\ owner' = [owner EXCEPT ![i] = "wrapper"]
    /\ hist' = [hist EXCEPT ![i] = <<>>]
    /\ UNCHANGED <<bare, run, state>>

\* the caller takes the collection back: into_inner(self)
IntoInner(i) ==
    /\ run.pc = "idle"
    /\ owner[i] = "wrapper"
    /\ coll' = [coll EXCEPT ![i] = into_inner(w[i])]
    /\ w' = [w EXCEPT ![i] = MovedW]
    /\ owner' = [owner EXCEPT ![i] = "caller"]
    /\ hist' = [hist EXCEPT ![i] = <<>>]
    /\ UNCHANGED <<bare, run, state>>

\* the caller changes the wrapped collection through DerefMut
Mutate(i) ==
    /\ run.pc = "idle"
    /\ owner[i] = "wrapper"
    /\ \E op \in Ops(deref(w[i])) :
        /\ op.name = "insert" => Len(deref(w[i]).elems) < MaxLen
        /\ w' = [w EXCEPT ![i] = deref_mut(w[i], op)]
        /\ bare' = [bare EXCEPT ![i] = Apply(bare[i], op)]
    /\ UNCHANGED <<owner, coll, run, state, hist>>

\* hash_by_summing_hashes_with::<C, H, BH>(collection, state), up to the loop:
\* let mut sum = Wrapping::default();
hash_by_summing_hashes_with(i, bh, entry) ==
    /\ run.pc = "idle"
    /\ run' = [IdleRun EXCEPT !.pc = "loop", !.entry = entry, !.self = i,
                              !.bh = bh, !.idx = 1,
                              !.sum = Wrapping_default, !.out0 = state]
    /\ UNCHANGED <<owner, coll, w, bare, state, hist>>

\* hash_by_summing_hashes(collection, state)
hash_by_summing_hashes(i) ==
    hash_by_summing_hashes_with(i, "UseDefaultHasher", "hash_by_summing_hashes")

\* hash_by_summing_hashes_with::<C, H, UseProvidedHasher<C>> called directly
hash_with_provided(i) ==
    /\ ProvidesHasher(Coll(i))
    /\ hash_by_summing_hashes_with(i, "UseProvidedHasher",
                                   "hash_by_summing_hashes_with")

\* impl Hash for SumHashes (delegates to the inner wrapper) and
\* impl Hash for SumHashesAnyCollection: the wrapper's BH, on &self.0
Hash_hash_wrapper(i) ==
    /\ owner[i] = "wrapper"
    /\ hash_by_summing_hashes_with(i, w[i].bh, w[i].ty)

\* an iteration that takes each element out of the collection it yields from
IterNextDraining ==
    /\ run.pc = "loop"
    /\ IF Coll(run.self).elems # <<>> /\ owner[run.self] = "wrapper"
       THEN /\ run' = [run EXCEPT !.pc = "build",
                                  !.value = Head(Coll(run.self).elems)]
            /\ w' = [w EXCEPT ![run.self].c.elems = Tail(@)]
       ELSE /\ run' = [run EXCEPT !.pc = "write", !.value = NoValue]
            /\ w' = w
    /\ UNCHANGED <<owner, coll, bare, state, hist>>

\* for value in collection: the iterator yields the next element or ends
IterNext ==
    /\ run.pc = "loop"
    /\ IF run.idx <= Len(Coll(run.self).elems)
       THEN run' = [run EXCEPT !.pc = "build",
                               !.value = Coll(run.self).elems[run.idx]]
       ELSE run' = [run EXCEPT !.pc = "write", !.value = NoValue]
    /\ UNCHANGED <<owner, coll, w, bare, state, hist>>

\* let mut hasher = BH::build_hasher_from(collection);
BuildHasher ==
    /\ run.pc = "build"
    /\ run' = [run EXCEPT !.pc = "hash",
                          !.hasher = build_hasher_from(run.bh, run.self),
                          !.built = @ + 1]
    /\ UNCHANGED <<owner, coll, w, bare, state, hist>>

\* Hash::hash(&value, &mut hasher);
FeedElement ==
    /\ run.pc = "hash"
    /\ run' = [run EXCEPT !.pc = "finish",
                          !.hasher.st = Hash_hash(run.value, @),
                          !.hasher.fed = @ + 1]
    /\ UNCHANGED <<owner, coll, w, bare, state, hist>>

\* sum += hasher.finish(); and the end of the loop body
FinishAdd ==
    /\ run.pc = "finish"
    /\ run' = [run EXCEPT !.pc = "loop",
                          !.sum = WrappingAdd(@, finish(run.hasher.st)),
                          !.hasher = DropHasher(@),
                          !.finished = @ + 1,
                          !.idx = @ + 1]
    /\ UNCHANGED <<owner, coll, w, bare, state, hist>>

\* state.write_u64(sum.0);
WriteSum ==
    /\ run.pc = "write"
    /\ state' = write_u64(state, run.sum)
    /\ run' = [run EXCEPT !.pc = "done", !.writes = Append(@, run.sum)]
    /\ UNCHANGED <<owner, coll, w, bare, hist>>

\* what the caller keeps of a request: how it was made, the selector, the
\* multiset that was hashed, the value written and the outer hasher's digest
Result ==
    [entry |-> run.entry, bh |-> run.bh, bag |-> BagOf(Coll(run.self).elems),
     sum |-> run.writes[Len(run.writes)], digest |-> finish(state)]

Push(h, r, k) == IF Len(h) < k THEN Append(h, r) ELSE Append(Tail(h), r)

\* the call returns; the caller reads the digest, remembers its latest k
\* results and takes an outer hasher in the same state for the next request
Return(k) ==
    /\ run.pc = "done"
    /\ hist' = [hist EXCEPT ![run.self] = Push(@, Result, k)]
    /\ state' = run.out0
    /\ run' = IdleRun
    /\ UNCHANGED <<owner, coll, w, bare>>

HashSteps == IterNext \/ BuildHasher \/ FeedElement \/ FinishAdd \/ WriteSum

\* ------------------------------------------- one wrapper and its lifecycle
EmptyCollections == {Collection(k, <<>>, c) : k \in Kinds, c \in Seeds \cup {0}}

Init ==
    /\ owner = [i \in {1} |-> "caller"]
    /\ coll \in [{1} -> {c \in EmptyCollections : c.ctx \in CtxsOf(c.kind)}]
    /\ w = [i \in {1} |-> MovedW]
    /\ bare = coll
    /\ run = IdleRun
    /\ state \in OuterStates
    /\ hist = [i \in {1} |-> <<>>]

Next ==
    \/ \E i \in Slots : NewSumHashes(i)
    \/ \E i \in Slots : NewSumHashesAnyCollection(i)
    \/ \E i \in Slots : IntoInner(i)
    \/ \E i \in Slots : Mutate(i)
    \/ \E i \in Slots : owner[i] = "caller" /\ hash_by_summing_hashes(i)
    \/ \E i \in Slots : owner[i] = "caller" /\ hash_with_provided(i)
    \/ \E i \in Slots : Hash_hash_wrapper(i)
    \/ HashSteps
    \/ Return(2)

Spec == Init /\ [][Next]_vars

\* ------- two wrapped collections of the same elements, hashed once each
WrappersOf(c) ==
    {SumHashesAnyCollection_new(c)}
    \cup (IF ProvidesHasher(c) THEN {SumHashes_new(c)} ELSE {})

PairCollections(cs) ==
    {Collection(k, e, c) : k \in Kinds, e \in SeqsUpTo(MaxLen), c \in cs}

PairInit ==
    /\ owner = [i \in {1, 2} |-> "wrapper"]
    /\ bare \in [{1, 2} -> PairCollections(Seeds \cup {0})]
    /\ \A i \in {1, 2} : /\ bare[i].ctx \in CtxsOf(bare[i].kind)
                         /\ WellFormed(bare[i].kind, bare[i].elems)
    /\ bare[1].ctx \in {0, 1}
    /\ BagOf(bare[1].elems) = BagOf(bare[2].elems)
    /\ w \in [{1, 2} -> UNION {WrappersOf(bare[i]) : i \in {1, 2}}]
    /\ \A i \in {1, 2} : deref(w[i]) = bare[i]
    /\ coll = [i \in {1, 2} |-> MovedC]
    /\ run = IdleRun
    /\ state = DefaultHasher_new
    /\ hist = [i \in {1, 2} |-> <<>>]

PairNext ==
    \/ \E i \in Slots : hist[i] = <<>> /\ hash_by_summing_hashes(i)
    \/ \E i \in Slots : hist[i] = <<>> /\ hash_with_provided(i)
    \/ \E i \in Slots : hist[i] = <<>> /\ Hash_hash_wrapper(i)
    \/ HashSteps
    \/ Return(1)

PairSpec == PairInit /\ [][PairNext]_vars

\* ------------------------------------------------ what the claims refer to
\* the key the per-element hashers of a request must have
ExpectedKey(bh, c) == IF bh = "UseDefaultHasher" THEN Keyed(0) ELSE Keyed(c.ctx)

\* the 64-bit digest of one element under that key
ElementDigest(bh, c, x) == finish(Hash_hash(x, ExpectedKey(bh, c)))

\* the sum mod 2^64 of the digests of the elements of s
RECURSIVE SumOfDigests(_, _, _)
SumOfDigests(bh, c, s) ==
    IF s = <<>> THEN Zero64
    ELSE Add64(ElementDigest(bh, c, Head(s)), SumOfDigests(bh, c, Tail(s)))

\* TRUE iff adding the digests of s in order, from 0, exceeds 2^64 - 1 on the way
WrapsAround(bh, c, s) ==
    \E k \in DOMAIN s :
        Overflows(SumOfDigests(bh, c, SubSeq(s, 1, k - 1)), ElementDigest(bh, c, s[k]))

Running == run.pc \in {"loop", "build", "hash", "finish", "write"}
Hashed == Coll(run.self)

\* bag b with one more occurrence of x
BagPlus(b, x) == [b EXCEPT ![x] = @ + 1]

\* C3: hash_by_summing_hashes_with writes to the outer hasher exactly once, and
\* the value is the sum of the digests of all yielded elements mod 2^64
\* (wrapping, never saturating; an element yielded k times counts k times).
C3_SingleWrappingWrite ==
    /\ Running => run.writes = <<>> /\ state = run.out0
    /\ run.pc = "done" =>
        /\ run.writes = <<SumOfDigests(run.bh, Hashed, Hashed.elems)>>
        /\ state = write_u64(run.out0, SumOfDigests(run.bh, Hashed, Hashed.elems))

\* a finished request over a sequence with a repeated element whose sum wrapped
C3_Witness ==
    /\ run.pc = "done"
    /\ \E p, q \in DOMAIN Hashed.elems : p # q /\ Hashed.elems[p] = Hashed.elems[q]
    /\ WrapsAround(run.bh, Hashed, Hashed.elems)

\* C6: a hash request on an unchanged collection with the same selector and
\* an outer hasher in the same state gives the same written value and the
\* same digest as the earlier requests did.
C6_Determinism ==
    run.pc = "done" =>
        \A k \in DOMAIN hist[run.self] :
            LET r == hist[run.self][k] IN
            (r.bh = run.bh /\ r.bag = BagOf(Hashed.elems)) =>
                (r.sum = Result.sum /\ r.digest = Result.digest)

\* a second request on a non-empty collection already hashed with these contents
C6_Witness ==
    /\ run.pc = "done"
    /\ Hashed.elems # <<>>
    /\ \E k \in DOMAIN hist[run.self] :
        hist[run.self][k].bh = run.bh /\ hist[run.self][k].bag = BagOf(Hashed.elems)

\* C7: whatever is done through the wrapper, the wrapped collection is the
\* collection the same operations give on the bare collection, and
\* into_inner returns exactly it.
C7_Transparent ==
    \A i \in Slots :
        /\ owner[i] = "wrapper" => deref(w[i]) = bare[i]
        /\ owner[i] = "caller" => coll[i] = bare[i] /\ w[i] = MovedW

\* a collection that was wrapped, filled through the wrapper and taken back
C7_Witness ==
    \E i \in Slots : owner[i] = "caller" /\ Len(coll[i].elems) >= 2

\* C8: no step of a hash request changes any collection or wrapper.
C8_HashLeavesCollection ==
    [][(run.pc # "idle" \/ run'.pc # "idle") => UNCHANGED <<owner, coll, w>>]_vars

\* a finished request on a non-empty wrapped collection
C8_Witness ==
    run.pc = "done" /\ owner[run.self] = "wrapper" /\ Len(Hashed.elems) >= 2

\* C9: one fresh hasher per yielded element, fed exactly that element,
\* finalized and dropped before the next is built; the outer write comes
\* after the last element is finalized.
C9_HasherIsolation ==
    /\ run.pc \in {"idle", "loop", "build", "write", "done"} => ~run.hasher.live
    /\ run.pc \in {"loop", "build", "write", "done"} => run.built = run.finished
    /\ run.pc \in {"loop", "build", "hash", "finish"} => run.idx = run.finished + 1
    /\ run.pc = "hash" =>
        /\ run.hasher.live /\ run.hasher.fed = 0
        /\ run.hasher.st = ExpectedKey(run.bh, Hashed)
        /\ run.built = run.finished + 1
    /\ run.pc = "finish" =>
        /\ run.hasher.live /\ run.hasher.fed = 1
        /\ run.hasher.st = Hash_hash(run.value, ExpectedKey(run.bh, Hashed))
        /\ run.built = run.finished + 1
    /\ run.pc \in {"write", "done"} => run.finished = Len(Hashed.elems)
    /\ run.writes # <<>> => run.pc = "done"

\* a finished request that built and finalized at least two hashers
C9_Witness == run.pc = "done" /\ run.built >= 2 /\ run.finished = run.built

\* C10: the written value follows the mutations made through DerefMut: after
\* inserting an absent x it is the previous value plus the digest of x, and
\* after removing x again it is the value written before the insertion.
C10_SumTracksMutations ==
    run.pc = "done" =>
        LET h == hist[run.self]
            now == BagOf(Hashed.elems)
        IN
        /\ \A k \in DOMAIN h : \A x \in Elems :
            (h[k].bag[x] = 0 /\ now = BagPlus(h[k].bag, x)) =>
                Result.sum = Add64(h[k].sum, ElementDigest(run.bh, Hashed, x))
        /\ \A k \in DOMAIN h : \A x \in Elems :
            (now[x] = 0 /\ h[k].bag = BagPlus(now, x)) =>
                h[k].sum = Add64(Result.sum, ElementDigest(run.bh, Hashed, x))
        /\ Len(h) = 2 =>
            \A x \in Elems :
                (h[1].bag[x] = 0 /\ h[2].bag = BagPlus(h[1].bag, x) /\ now = h[1].bag)
                    => Result.sum = h[1].sum

\* requests before an insertion, after it and after the removal, on a
\* set-like collection that was not empty
C10_Witness ==
    /\ run.pc = "done"
    /\ Hashed.kind = "HashSet"
    /\ Hashed.elems # <<>>
    /\ Len(hist[run.self]) = 2
    /\ \E x \in Elems :
        /\ hist[run.self][1].bag[x] = 0
        /\ hist[run.self][2].bag = BagPlus(hist[run.self][1].bag, x)
        /\ BagOf(Hashed.elems) = hist[run.self][1].bag

\* derived PartialEq of the wrappers: same wrapper type, equal collections
WrapperEq(a, b) == a.ty = b.ty /\ a.bh = b.bh /\ CollEq(a.c, b.c)

HashedSlots == {i \in Slots : hist[i] # <<>>}

\* C1: with one hashing context, the written value and the digest depend
\* only on the multiset of the elements: not on the order iteration yields
\* them in, nor on the kind of container.
C1_PermutationInvariance ==
    \A i, j \in HashedSlots :
        LET a == hist[i][1]
            b == hist[j][1]
        IN (/\ a.bag = b.bag
            /\ a.bh = b.bh
            /\ a.bh = "UseProvidedHasher" => Coll(i).ctx = Coll(j).ctx)
            => (a.sum = b.sum /\ a.digest = b.digest)

\* a map and a set of the same two pairs, yielded in different orders, both
\* hashed with the default hasher
C1_Witness ==
    /\ HashedSlots = {1, 2}
    /\ Coll(1).kind = "HashMap" /\ Coll(2).kind = "HashSet"
    /\ Len(Coll(1).elems) >= 2
    /\ Coll(1).elems # Coll(2).elems
    /\ BagOf(Coll(1).elems) = BagOf(Coll(2).elems)
    /\ hist[1][1].bh = "UseDefaultHasher" /\ hist[2][1].bh = "UseDefaultHasher"

\* C2: wrappers that are equal hash equally: w1 == w2 implies that
\* Hash::hash of w1 and of w2 give the same digest.
C2_EqualWrappersHashEqually ==
    \A i, j \in HashedSlots :
        (/\ WrapperEq(w[i], w[j])
         /\ hist[i][1].entry = w[i].ty
         /\ hist[j][1].entry = w[j].ty)
            => hist[i][1].digest = hist[j][1].digest

\* C4: over an empty collection no per-element hasher is built and the value
\* written is 0, whatever the container and the selector; so all empty
\* collections get the same digest.
C4_EmptyWritesZero ==
    /\ (run.pc \in {"write", "done"} /\ Hashed.elems = <<>>) =>
        /\ run.built = 0
        /\ run.sum = Zero64
        /\ run.pc = "done" => run.writes = <<Zero64>>
    /\ \A i, j \in HashedSlots :
        (Coll(i).elems = <<>> /\ Coll(j).elems = <<>>) =>
            /\ hist[i][1].sum = Zero64
            /\ hist[i][1].digest = hist[j][1].digest

\* an empty map and an empty set, hashed with different selectors
C4_Witness ==
    /\ HashedSlots = {1, 2}
    /\ Coll(1).kind = "HashMap" /\ Coll(2).kind = "HashSet"
    /\ Coll(1).elems = <<>> /\ Coll(2).elems = <<>>
    /\ hist[1][1].bh # hist[2][1].bh

\* C5: every per-element hasher of a request comes from one source: the
\* context of the very collection being hashed for SumHashes and
\* UseProvidedHasher, the fixed default hasher for hash_by_summing_hashes and
\* SumHashesAnyCollection.
C5_UniformContext ==
    /\ run.entry \in {"SumHashes", "hash_by_summing_hashes_with"}
        => run.bh = "UseProvidedHasher"
    /\ run.entry \in {"SumHashesAnyCollection", "hash_by_summing_hashes"}
        => run.bh = "UseDefaultHasher"
    /\ run.hasher.live =>
        IF run.bh = "UseProvidedHasher"
        THEN /\ run.hasher.src = [from |-> "friend", slot |-> run.self]
             /\ run.pc = "hash" => run.hasher.st = build_hasher(Hashed.ctx)
        ELSE /\ run.hasher.src = [from |-> "default", slot |-> 0]
             /\ run.pc = "hash" => run.hasher.st = DefaultHasher_new

\* the second hasher of a SumHashes request, beside a collection that
\* carries another context
C5_Witness ==
    /\ run.entry = "SumHashes"
    /\ run.pc = "hash"
    /\ run.idx = 2
    /\ \E j \in Slots : ProvidesHasher(Coll(j)) /\ Coll(j).ctx # Hashed.ctx
====
